---- MODULE Spec2Model ----
(***************************************************************************)
(* Model of wrap_my_spotify_v2.py: parse_json (aggregation of play events  *)
(* into per-track listen histories), filter_songs (artist gate and the     *)
(* per-listen exclusion checks that build FilteredTracks) and sort (the    *)
(* ranking by one of four metrics).                                        *)
(*                                                                         *)
(* Python values are encoded uniformly: None/True/False are the strings    *)
(* "None"/"True"/"False" (JSON null/true/false), a list is a sequence, a   *)
(* dict with insertion order is a sequence of records keyed by uri, and a  *)
(* datetime is the tuple <<year, month, day, hour, minute, second>>.       *)
(* Dictionary keys containing '-' are written with '_'.                    *)
(***************************************************************************)
EXTENDS Integers, Sequences, FiniteSets, TLC

VARIABLES json_list, idx, all_songs, pc, kwargs, filtered_songs, sort_by, sorted_songs

vars == <<json_list, idx, all_songs, pc, kwargs, filtered_songs, sort_by, sorted_songs>>

(***************************************************************************)
(* Bounds                                                                  *)
(***************************************************************************)
MaxEvents == 3
MaxSetOptions == 2
MaxTracks == 3

(***************************************************************************)
(* Constants of the program                                                *)
(***************************************************************************)
MIN_LISTEN_TIME == 30000

\* datetime.min, the default of `after`
DatetimeMin == <<1, 1, 1, 0, 0, 0>>

\* datetime.now() as evaluated once, when the def statement of filter_songs
\* runs (module import); the run modelled imports the module at NOW.
DefTimeNow == <<2023, 7, 1, 0, 0, 0>>

(***************************************************************************)
(* datetime: strptime with '%Y-%m-%dT%H:%M:%SZ' and comparison             *)
(***************************************************************************)
IsLeap(y) == (y % 4 = 0 /\ y % 100 # 0) \/ y % 400 = 0

DaysInMonth(y, m) ==
    IF m = 2 THEN (IF IsLeap(y) THEN 29 ELSE 28)
    ELSE IF m \in {4, 6, 9, 11} THEN 30 ELSE 31

\* The text of a timestamp is represented by its six numeric fields; strptime
\* raises ValueError unless they form a date and time of day.
StrptimeOk(ts) ==
    /\ ts[1] \in 1..9999
    /\ ts[2] \in 1..12
    /\ ts[3] \in 1..DaysInMonth(ts[1], ts[2])
    /\ ts[4] \in 0..23
    /\ ts[5] \in 0..59
    /\ ts[6] \in 0..59

Strptime(ts) == <<ts[1], ts[2], ts[3], ts[4], ts[5], ts[6]>>

RECURSIVE DtLtFrom(_, _, _)
DtLtFrom(a, b, k) ==
    IF k > 6 THEN FALSE
    ELSE IF a[k] # b[k] THEN a[k] < b[k]
    ELSE DtLtFrom(a, b, k + 1)

\* datetime.__lt__ / __gt__
DtLt(a, b) == DtLtFrom(a, b, 1)
DtGt(a, b) == DtLtFrom(b, a, 1)

(***************************************************************************)
(* Input: the play events of the export                                    *)
(***************************************************************************)
RawEvent(uri, title, artist, album, ts, ms, rs, re, shuffle, skipped, offline, incognito) ==
    [spotify_track_uri |-> uri,
     master_metadata_track_name |-> title,
     master_metadata_album_artist_name |-> artist,
     master_metadata_album_album_name |-> album,
     ts |-> ts, ms_played |-> ms,
     reason_start |-> rs, reason_end |-> re,
     shuffle |-> shuffle, skipped |-> skipped,
     offline |-> offline, incognito_mode |-> incognito,
     platform |-> "android"]

Events ==
    { RawEvent("u1", "Song A", "X", "Album A", <<2023, 1, 1, 0, 0, 0>>, 10000,
               "clickrow", "fwdbtn", "True", "True", "False", "False"),
      RawEvent("u1", "Song A - Remastered", "Y", "Album A (Deluxe)", <<2023, 3, 5, 12, 0, 0>>, 40000,
               "trackdone", "trackdone", "False", "False", "True", "False"),
      RawEvent("u2", "Song B", "Y", "Album B", <<2022, 12, 31, 23, 59, 59>>, 40000,
               "trackdone", "fwdbtn", "False", "True", "False", "True"),
      RawEvent("u2", "Song B", "Y", "Album B", <<2024, 2, 29, 8, 30, 0>>, 40000,
               "fwdbtn", "trackdone", "True", "None", "False", "False"),
      RawEvent("u2", "Song B", "Y", "Album B", <<2023, 6, 30, 23, 59, 59>>, 10000,
               "clickrow", "endplay", "False", "True", "False", "False"),
      RawEvent("None", "None", "None", "None", <<2023, 2, 2, 10, 0, 0>>, 40000,
               "clickrow", "trackdone", "False", "False", "False", "False"),
      RawEvent("u3", "Song C", "X", "Album C", <<2023, 2, 30, 0, 0, 0>>, 40000,
               "trackdone", "trackdone", "False", "False", "False", "False") }

RECURSIVE SeqsUpTo(_, _)
SeqsUpTo(S, n) ==
    IF n = 0 THEN {<<>>}
    ELSE LET shorter == SeqsUpTo(S, n - 1)
         IN shorter \cup {Append(s, e) : s \in {t \in shorter : Len(t) = n - 1}, e \in S}

Inputs == SeqsUpTo(Events, MaxEvents)

(***************************************************************************)
(* parse_json                                                              *)
(***************************************************************************)
\* position of uri in the dict (0 when absent): `uri in all_songs`
RECURSIVE IndexOfFrom(_, _, _)
IndexOfFrom(songs, uri, k) ==
    IF k > Len(songs) THEN 0
    ELSE IF songs[k].uri = uri THEN k
    ELSE IndexOfFrom(songs, uri, k + 1)

IndexOf(songs, uri) == IndexOfFrom(songs, uri, 1)

NewSong(song) ==
    [title |-> song.master_metadata_track_name,
     artist |-> song.master_metadata_album_artist_name,
     album |-> song.master_metadata_album_album_name,
     uri |-> song.spotify_track_uri,
     listens |-> <<>>]

NewListen(song) ==
    [ts |-> Strptime(song.ts),
     time_played |-> song.ms_played,
     start_reason |-> song.reason_start,
     end_reason |-> song.reason_end,
     shuffle |-> song.shuffle,
     skipped |-> song.skipped,
     offline |-> song.offline,
     incognito |-> song.incognito_mode,
     platform |-> song.platform]

\* WithSong, were a Track made for every event, seen before or not
WithSong_AlwaysNew(songs, song) == Append(songs, NewSong(song))

\* WithSong, were the identity fields of a Track taken from its latest event
WithSong_Overwrite(songs, song) ==
    LET k == IndexOf(songs, song.spotify_track_uri)
    IN IF k = 0 THEN Append(songs, NewSong(song))
       ELSE [songs EXCEPT ![k] = [NewSong(song) EXCEPT !.listens = songs[k].listens]]

\* all_songs after the `not in all_songs` branch of one iteration
WithSong(songs, song) ==
    IF IndexOf(songs, song.spotify_track_uri) = 0
    THEN Append(songs, NewSong(song))
    ELSE songs

\* all_songs after the append of one iteration
WithListen(songs, song) ==
    LET k == IndexOf(songs, song.spotify_track_uri)
    IN [songs EXCEPT ![k].listens = Append(@, NewListen(song))]

\* one iteration of the loop over json_list; raised = strptime raised
ParseStep(songs, song) ==
    IF song.spotify_track_uri = "None"
    THEN [raised |-> FALSE, songs |-> songs]
    ELSE IF ~StrptimeOk(song.ts)
    THEN [raised |-> TRUE, songs |-> WithSong(songs, song)]
    ELSE [raised |-> FALSE, songs |-> WithListen(WithSong(songs, song), song)]

RECURSIVE ParseFrom(_, _, _)
ParseFrom(list, k, songs) ==
    IF k > Len(list) THEN [raised |-> FALSE, songs |-> songs]
    ELSE LET r == ParseStep(songs, list[k])
         IN IF r.raised THEN r ELSE ParseFrom(list, k + 1, r.songs)

\* parse_json as a function of its argument
ParseJson(list) == ParseFrom(list, 1, <<>>)

\* the track mappings parse_json returns for the inputs
ParsedInputs == {ParseJson(l).songs : l \in {i \in Inputs : ~ParseJson(i).raised}}

(***************************************************************************)
(* filter_songs                                                            *)
(***************************************************************************)
\* `x in list`
InList(x, list) == \E k \in 1..Len(list) : list[k] = x

\* `if listen['skipped']`
Truthy(v) == v = "True"

\* lines 84-94
NewFilteredSong(song) ==
    [title |-> song.title, artist |-> song.artist, album |-> song.album,
     uri |-> song.uri, time_played |-> <<>>, skips |-> 0]

\* ArtistGate, were artist_exclude not consulted
ArtistGate_NoExclude(song, kw) ==
    ~(kw.artist_include # <<>> /\ ~InList(song.artist, kw.artist_include))

\* lines 97-98: TRUE when neither `continue` is taken
ArtistGate(song, kw) ==
    /\ ~(kw.artist_include # <<>> /\ ~InList(song.artist, kw.artist_include))
    /\ ~InList(song.artist, kw.artist_exclude)

\* line 104
PassesListenTime(listen, kw) == ~(listen.time_played < kw.ms_played)

\* PassesTimestamp, were the two bounds exclusive
PassesTimestamp_Exclusive(listen, kw) ==
    /\ DtLt(listen.ts, kw.before)
    /\ DtGt(listen.ts, kw.after)

\* lines 107-108
PassesTimestamp(listen, kw) ==
    /\ ~DtGt(listen.ts, kw.before)
    /\ ~DtLt(listen.ts, kw.after)

\* lines 111-112, one of them: the subscript is taken on the song, which has
\* the keys title, artist, album, uri and listens
ReasonCheck(song, key, reasons) ==
    IF reasons = <<>> THEN "pass"
    ELSE IF key \notin DOMAIN song THEN "KeyError"
    ELSE IF ~InList(song[key], reasons) THEN "continue"
    ELSE "pass"

\* lines 111-112 together
ReasonsCheck(song, kw) ==
    LET s == ReasonCheck(song, "start_reason", kw.start_reasons)
    IN IF s # "pass" THEN s ELSE ReasonCheck(song, "end_reason", kw.end_reasons)

\* lines 115-117 and 121, one of them
PassesBool(flag, option) == ~(flag # option /\ option # "None")

\* lines 115-117
PassesBooleans(listen, kw) ==
    /\ PassesBool(listen.shuffle, kw.on_shuffle)
    /\ PassesBool(listen.offline, kw.while_offline)
    /\ PassesBool(listen.incognito, kw.while_private)

\* line 119
TallySkip(fs, listen) ==
    IF Truthy(listen.skipped) THEN [fs EXCEPT !.skips = @ + 1] ELSE fs

\* line 125
AddListen(fs, listen) ==
    [fs EXCEPT !.time_played = Append(@, listen.time_played)]

\* FilterListen, were the skip tallied only for a listen that is kept
FilterListen_TallyKept(fs, listen, song, kw) ==
    IF ~PassesListenTime(listen, kw) THEN [raised |-> FALSE, fs |-> fs]
    ELSE IF ~PassesTimestamp(listen, kw) THEN [raised |-> FALSE, fs |-> fs]
    ELSE IF ReasonsCheck(song, kw) = "KeyError" THEN [raised |-> TRUE, fs |-> fs]
    ELSE IF ReasonsCheck(song, kw) = "continue" THEN [raised |-> FALSE, fs |-> fs]
    ELSE IF ~PassesBooleans(listen, kw) THEN [raised |-> FALSE, fs |-> fs]
    ELSE IF ~PassesBool(listen.skipped, kw.skipped) THEN [raised |-> FALSE, fs |-> fs]
    ELSE [raised |-> FALSE, fs |-> AddListen(TallySkip(fs, listen), listen)]

\* FilterListen, were the skip tallied before the shuffle, offline and
\* private checks
FilterListen_TallyBeforeBooleans(fs, listen, song, kw) ==
    IF ~PassesListenTime(listen, kw) THEN [raised |-> FALSE, fs |-> fs]
    ELSE IF ~PassesTimestamp(listen, kw) THEN [raised |-> FALSE, fs |-> fs]
    ELSE IF ReasonsCheck(song, kw) = "KeyError" THEN [raised |-> TRUE, fs |-> fs]
    ELSE IF ReasonsCheck(song, kw) = "continue" THEN [raised |-> FALSE, fs |-> fs]
    ELSE IF ~PassesBooleans(listen, kw)
         THEN [raised |-> FALSE, fs |-> TallySkip(fs, listen)]
    ELSE IF ~PassesBool(listen.skipped, kw.skipped)
         THEN [raised |-> FALSE, fs |-> TallySkip(fs, listen)]
    ELSE [raised |-> FALSE, fs |-> AddListen(TallySkip(fs, listen), listen)]

\* lines 104-125: the body of the loop over the listens of a song
FilterListen(fs, listen, song, kw) ==
    IF ~PassesListenTime(listen, kw) THEN [raised |-> FALSE, fs |-> fs]
    ELSE IF ~PassesTimestamp(listen, kw) THEN [raised |-> FALSE, fs |-> fs]
    ELSE IF ReasonsCheck(song, kw) = "KeyError" THEN [raised |-> TRUE, fs |-> fs]
    ELSE IF ReasonsCheck(song, kw) = "continue" THEN [raised |-> FALSE, fs |-> fs]
    ELSE IF ~PassesBooleans(listen, kw) THEN [raised |-> FALSE, fs |-> fs]
    ELSE IF ~PassesBool(listen.skipped, kw.skipped)
         THEN [raised |-> FALSE, fs |-> TallySkip(fs, listen)]
    ELSE [raised |-> FALSE, fs |-> AddListen(TallySkip(fs, listen), listen)]

\* lines 101-125
RECURSIVE FilterListensFrom(_, _, _, _)
FilterListensFrom(fs, song, k, kw) ==
    IF k > Len(song.listens) THEN [raised |-> FALSE, fs |-> fs]
    ELSE LET r == FilterListen(fs, song.listens[k], song, kw)
         IN IF r.raised THEN r ELSE FilterListensFrom(r.fs, song, k + 1, kw)

\* lines 79-128: the loop over the songs, in the order of the dict
RECURSIVE FilterSongsFrom(_, _, _, _)
FilterSongsFrom(out, songs, k, kw) ==
    IF k > Len(songs) THEN [raised |-> FALSE, songs |-> out]
    ELSE IF ~ArtistGate(songs[k], kw) THEN FilterSongsFrom(out, songs, k + 1, kw)
    ELSE LET r == FilterListensFrom(NewFilteredSong(songs[k]), songs[k], 1, kw)
         IN IF r.raised THEN [raised |-> TRUE, songs |-> out]
            ELSE FilterSongsFrom(Append(out, r.fs), songs, k + 1, kw)

\* filter_songs as a function of its arguments
FilterSongs(songs, kw) == FilterSongsFrom(<<>>, songs, 1, kw)

(***************************************************************************)
(* sort                                                                    *)
(***************************************************************************)
RECURSIVE Sum(_)
Sum(seq) == IF seq = <<>> THEN 0 ELSE Head(seq) + Sum(Tail(seq))

\* The value of a key lambda, as the fraction num/den with den > 0; the
\* float quotient of line 142 orders and equates as the fraction does.
Frac(n, d) == [num |-> n, den |-> d]

\* lines 136, 138, 140, 142: the key lambdas
SortKey(m, song) ==
    IF m = "plays" THEN Frac(Len(song.time_played), 1)
    ELSE IF m = "time" THEN Frac(Sum(song.time_played), 1)
    ELSE IF m = "skips" THEN Frac(song.skips, 1)
    ELSE IF Len(song.time_played) # 0
         THEN Frac(song.skips, Len(song.time_played))
         ELSE Frac(-1, 1)

FracLt(a, b) == a.num * b.den < b.num * a.den

\* InsertDesc, were equal keys put in front (an ascending sort, reversed)
RECURSIVE InsertDesc_TiesReversed(_, _, _)
InsertDesc_TiesReversed(out, x, m) ==
    IF out = <<>> THEN <<x>>
    ELSE IF ~FracLt(SortKey(m, x), SortKey(m, Head(out))) THEN <<x>> \o out
    ELSE <<Head(out)>> \o InsertDesc_TiesReversed(Tail(out), x, m)

\* place of x in a list already in order: behind every element whose key is
\* not smaller (sorted is stable, also with reverse=True)
RECURSIVE InsertDesc(_, _, _)
InsertDesc(out, x, m) ==
    IF out = <<>> THEN <<x>>
    ELSE IF FracLt(SortKey(m, Head(out)), SortKey(m, x)) THEN <<x>> \o out
    ELSE <<Head(out)>> \o InsertDesc(Tail(out), x, m)

RECURSIVE SortedFrom(_, _, _, _)
SortedFrom(out, songs, k, m) ==
    IF k > Len(songs) THEN out
    ELSE SortedFrom(InsertDesc(out, songs[k], m), songs, k + 1, m)

\* sorted(songs, key=..., reverse=True)
Sorted(songs, m) == SortedFrom(<<>>, songs, 1, m)

Metrics == {"plays", "time", "skips", "skip ratio"}

\* what callers pass: the four metrics, and names no case matches
Selectors == Metrics \cup {"skipRatio", "artist"}

\* lines 134-142: no case matches an unknown selector and the function
\* falls off its end, returning None
SortCall(m, songs) ==
    IF m \in Metrics
    THEN [outcome |-> "sort_returned_list", value |-> Sorted(songs, m)]
    ELSE [outcome |-> "sort_returned_None", value |-> <<>>]

\* FilteredTracks given to sort: track k of a list has uri k; each has one of
\* these kept-duration sequences and skip counters
Tallies ==
    { [time_played |-> <<>>, skips |-> 0],
      [time_played |-> <<>>, skips |-> 2],
      [time_played |-> <<40000>>, skips |-> 0],
      [time_played |-> <<40000>>, skips |-> 1],
      [time_played |-> <<10000, 10000>>, skips |-> 1],
      [time_played |-> <<10000, 40000>>, skips |-> 3],
      [time_played |-> <<40000, 40000, 40000, 40000, 40000>>, skips |-> 0] }

FilteredTrack(k, tally) ==
    [title |-> "Song", artist |-> "X", album |-> "Album", uri |-> k,
     time_played |-> tally.time_played, skips |-> tally.skips]

SortInputs ==
    UNION { { [k \in 1..n |-> FilteredTrack(k, f[k])] : f \in [1..n -> Tallies] }
            : n \in 0..MaxTracks }

\* lines 62-72: the defaults of the keyword arguments
DefaultKwargs ==
    [ms_played |-> 0, before |-> DefTimeNow, after |-> DatetimeMin,
     artist_include |-> <<>>, artist_exclude |-> <<>>,
     start_reasons |-> <<>>, end_reasons |-> <<>>,
     on_shuffle |-> "None", while_offline |-> "None",
     skipped |-> "None", while_private |-> "None"]

PyBool == {"None", "True", "False"}

AllKwargs ==
    [ms_played : {0, MIN_LISTEN_TIME},
     before : {DefTimeNow, <<2023, 3, 5, 12, 0, 0>>},
     after : {DatetimeMin, <<2023, 1, 1, 0, 0, 0>>},
     artist_include : {<<>>, <<"X">>},
     artist_exclude : {<<>>, <<"Y">>},
     start_reasons : {<<>>, <<"trackdone">>},
     end_reasons : {<<>>, <<"trackdone">>},
     on_shuffle : PyBool, while_offline : PyBool,
     skipped : PyBool, while_private : PyBool]

NonDefault(kw) == {f \in DOMAIN kw : kw[f] # DefaultKwargs[f]}

\* the calls explored: at most MaxSetOptions keyword arguments are passed
Kwargs == {kw \in AllKwargs : Cardinality(NonDefault(kw)) <= MaxSetOptions}

Init ==
    /\ json_list \in Inputs
    /\ idx = 1
    /\ all_songs = <<>>
    /\ pc = "parse_json"
    /\ kwargs = DefaultKwargs
    /\ filtered_songs = <<>>
    /\ sort_by = "None"
    /\ sorted_songs = <<>>

\* lines 33-34: a podcast event is skipped
ParsePodcast ==
    /\ pc = "parse_json"
    /\ idx <= Len(json_list)
    /\ json_list[idx].spotify_track_uri = "None"
    /\ idx' = idx + 1
    /\ UNCHANGED <<json_list, all_songs, pc, kwargs, filtered_songs, sort_by, sorted_songs>>

\* lines 37-57: an event of a track, the timestamp parses
ParseSong ==
    /\ pc = "parse_json"
    /\ idx <= Len(json_list)
    /\ json_list[idx].spotify_track_uri # "None"
    /\ ~ParseStep(all_songs, json_list[idx]).raised
    /\ all_songs' = ParseStep(all_songs, json_list[idx]).songs
    /\ idx' = idx + 1
    /\ UNCHANGED <<json_list, pc, kwargs, filtered_songs, sort_by, sorted_songs>>

\* lines 37-48: strptime raises ValueError; parse_json returns nothing
ParseRaise ==
    /\ pc = "parse_json"
    /\ idx <= Len(json_list)
    /\ json_list[idx].spotify_track_uri # "None"
    /\ ParseStep(all_songs, json_list[idx]).raised
    /\ all_songs' = ParseStep(all_songs, json_list[idx]).songs
    /\ pc' = "parse_raised"
    /\ UNCHANGED <<json_list, idx, kwargs, filtered_songs, sort_by, sorted_songs>>

\* line 59
ParseReturn ==
    /\ pc = "parse_json"
    /\ idx > Len(json_list)
    /\ pc' = "parsed"
    /\ UNCHANGED <<json_list, idx, all_songs, kwargs, filtered_songs, sort_by, sorted_songs>>

\* filter_songs(all_songs, **kw): returns the list, or raises KeyError at
\* line 111 or 112
Filter ==
    /\ pc = "parsed"
    /\ \E kw \in Kwargs :
        LET r == FilterSongs(all_songs, kw)
        IN /\ kwargs' = kw
           /\ filtered_songs' = r.songs
           /\ pc' = IF r.raised THEN "filter_raised" ELSE "filtered"
    /\ UNCHANGED <<json_list, idx, all_songs, sort_by, sorted_songs>>

Next == ParsePodcast \/ ParseSong \/ ParseRaise \/ ParseReturn

Spec == Init /\ [][Next]_vars

\* filter_songs is a function of its arguments: it is applied to the track
\* mappings parse_json returns for the inputs
InitFilter ==
    /\ json_list = <<>>
    /\ idx = 1
    /\ all_songs \in ParsedInputs
    /\ pc = "parsed"
    /\ kwargs = DefaultKwargs
    /\ filtered_songs = <<>>
    /\ sort_by = "None"
    /\ sorted_songs = <<>>

NextFilter == Filter

SpecFilter == InitFilter /\ [][NextFilter]_vars

\* sort is a function of its arguments: the lists it is applied to
InitSort ==
    /\ json_list = <<>>
    /\ idx = 1
    /\ all_songs = <<>>
    /\ pc = "filtered"
    /\ kwargs = DefaultKwargs
    /\ filtered_songs \in SortInputs
    /\ sort_by = "None"
    /\ sorted_songs = <<>>

\* sort(sort_by, filtered_songs)
Sort ==
    /\ pc = "filtered"
    /\ \E m \in Selectors :
        /\ sort_by' = m
        /\ sorted_songs' = SortCall(m, filtered_songs).value
        /\ pc' = SortCall(m, filtered_songs).outcome
    /\ UNCHANGED <<json_list, idx, all_songs, kwargs, filtered_songs>>

NextSort == Sort

SpecSort == InitSort /\ [][NextSort]_vars
(***************************************************************************)
(* Properties                                                              *)
(***************************************************************************)
Range(seq) == {seq[k] : k \in 1..Len(seq)}

\* the events of json_list that parse_json has consumed
Consumed == SubSeq(json_list, 1, idx - 1)

MusicEvents(list) == {k \in 1..Len(list) : list[k].spotify_track_uri # "None"}

TrackIds(list) == {list[k].spotify_track_uri : k \in MusicEvents(list)}

TotalListens(songs) == Sum([k \in 1..Len(songs) |-> Len(songs[k].listens)])

\* C6: while parse_json runs and after it has returned, the keys of the track
\* mapping are exactly the distinct non-null track identifiers of the events
\* consumed so far, one Track per identifier, every Track holds at least one
\* Listen, and the Listens are as many as the non-null events (a null event
\* adds neither a Track nor a Listen).
C6_TracksAreDistinctIds ==
    pc \in {"parse_json", "parsed"} =>
        /\ {all_songs[k].uri : k \in 1..Len(all_songs)} = TrackIds(Consumed)
        /\ Len(all_songs) = Cardinality(TrackIds(Consumed))
        /\ \A k \in 1..Len(all_songs) : Len(all_songs[k].listens) >= 1
        /\ TotalListens(all_songs) = Cardinality(MusicEvents(Consumed))

\* parse_json has returned from three events: a podcast and two plays of one
\* track, aggregated into a single Track of two Listens
C6_Witness ==
    /\ pc = "parsed"
    /\ Len(json_list) = 3
    /\ Cardinality(MusicEvents(json_list)) = 2
    /\ Len(all_songs) = 1
    /\ Len(all_songs[1].listens) = 2

\* the merge of two track mappings: the Tracks of a in their order, each with
\* the Listens b holds for it appended, then the Tracks only b holds
MergeSongs(a, b) ==
    LET InA(t) == \E k \in 1..Len(a) : a[k].uri = t.uri
        OnlyB(t) == ~InA(t)
        Extended(t) ==
            IF \E k \in 1..Len(b) : b[k].uri = t.uri
            THEN [t EXCEPT !.listens =
                    @ \o (CHOOSE u \in Range(b) : u.uri = t.uri).listens]
            ELSE t
    IN [k \in 1..Len(a) |-> Extended(a[k])] \o SelectSeq(b, OnlyB)

EventsOf(list, uri) ==
    LET IsOf(e) == e.spotify_track_uri = uri
    IN SelectSeq(list, IsOf)

\* C7: the mapping parse_json returns for A ++ B is the merge of the mappings
\* it returns for A and for B, for every split of the input; each Track's
\* listens are those of its events in input order, and its title, artist and
\* album are those of its first event.
C7_AggregationAssociative ==
    pc = "parsed" =>
        /\ \A n \in 0..Len(json_list) :
            LET a == ParseJson(SubSeq(json_list, 1, n))
                b == ParseJson(SubSeq(json_list, n + 1, Len(json_list)))
            IN /\ ~a.raised
               /\ ~b.raised
               /\ all_songs = MergeSongs(a.songs, b.songs)
        /\ \A k \in 1..Len(all_songs) :
            LET t == all_songs[k]
                mine == EventsOf(json_list, t.uri)
            IN /\ t.listens = [j \in 1..Len(mine) |-> NewListen(mine[j])]
               /\ t.title = mine[1].master_metadata_track_name
               /\ t.artist = mine[1].master_metadata_album_artist_name
               /\ t.album = mine[1].master_metadata_album_album_name

\* a track was seen twice, the second time under another title and artist
C7_Witness ==
    /\ pc = "parsed"
    /\ Len(all_songs) = 2
    /\ \E k \in 1..Len(all_songs) :
        LET mine == EventsOf(json_list, all_songs[k].uri)
        IN /\ Len(mine) = 2
           /\ mine[2].master_metadata_track_name # mine[1].master_metadata_track_name
           /\ mine[2].master_metadata_album_artist_name # all_songs[k].artist

\* the Track a FilteredTrack was made from
TrackOf(fs) == CHOOSE t \in Range(all_songs) : t.uri = fs.uri

DtLe(a, b) == ~DtLt(b, a)

SkipFlagged(t) == {k \in 1..Len(t.listens) : t.listens[k].skipped = "True"}

\* C1: filter_songs never fails: whatever the track mapping and the options,
\* the call returns and does not raise.
C1_FilterNeverFails == pc # "filter_raised"

\* C4: with every option at its default, the output has one FilteredTrack per
\* Track, and its kept durations are all the durations of the Track's
\* listens, in listen order, whatever their timestamps.
C4_DefaultsKeepEverything ==
    (pc = "filtered" /\ kwargs = DefaultKwargs) =>
        /\ Len(filtered_songs) = Len(all_songs)
        /\ \A k \in 1..Len(filtered_songs) :
            /\ filtered_songs[k].uri = all_songs[k].uri
            /\ filtered_songs[k].time_played =
                 [j \in 1..Len(all_songs[k].listens) |-> all_songs[k].listens[j].time_played]

\* the artist gate, in the words of the claim
PassesArtistGate(t) ==
    /\ kwargs.artist_include # <<>> => t.artist \in Range(kwargs.artist_include)
    /\ t.artist \notin Range(kwargs.artist_exclude)

\* C5: the list filter_songs returns holds exactly one FilteredTrack for each
\* Track that passes the artist gate, in the order of the track mapping, with
\* the Track's identity, and none for any other Track; a Track all of whose
\* listens are excluded is present all the same.
C5_OnePerGatedTrack ==
    pc = "filtered" =>
        LET passing == SelectSeq(all_songs, PassesArtistGate)
        IN /\ Len(filtered_songs) = Len(passing)
           /\ \A k \in 1..Len(passing) :
                /\ filtered_songs[k].uri = passing[k].uri
                /\ filtered_songs[k].title = passing[k].title
                /\ filtered_songs[k].artist = passing[k].artist
                /\ filtered_songs[k].album = passing[k].album

\* of two Tracks one is shut out by artist_exclude and absent; the other
\* passes the gate, loses every listen and is present with no kept duration
C5_Witness ==
    /\ pc = "filtered"
    /\ Len(all_songs) = 2
    /\ kwargs.artist_exclude # <<>>
    /\ Len(filtered_songs) = 1
    /\ filtered_songs[1].time_played = <<>>
    /\ \E k \in 1..2 : all_songs[k].artist \in Range(kwargs.artist_exclude)

\* the listens the claim of C9 says are kept
KeptByOptions(listen) ==
    /\ listen.time_played >= kwargs.ms_played
    /\ DtLe(kwargs.after, listen.ts)
    /\ DtLe(listen.ts, kwargs.before)
    /\ kwargs.on_shuffle # "None" => listen.shuffle = kwargs.on_shuffle
    /\ kwargs.while_offline # "None" => listen.offline = kwargs.while_offline
    /\ kwargs.while_private # "None" => listen.incognito = kwargs.while_private
    /\ kwargs.skipped # "None" => listen.skipped = kwargs.skipped

\* C9: with start_reasons and end_reasons empty, the kept durations of a
\* FilteredTrack are, in listen order, those of the listens that are long
\* enough, lie within [after, before] (bounds included) and agree with every
\* option that is set among on_shuffle, while_offline, while_private, skipped.
C9_KeptIffAllChecksPass ==
    (pc = "filtered" /\ kwargs.start_reasons = <<>> /\ kwargs.end_reasons = <<>>) =>
        \A k \in 1..Len(filtered_songs) :
            LET kept == SelectSeq(TrackOf(filtered_songs[k]).listens, KeptByOptions)
            IN filtered_songs[k].time_played =
                 [j \in 1..Len(kept) |-> kept[j].time_played]

\* a listen stamped exactly `after` is kept, the next listen of the Track is
\* dropped by while_offline
C9_Witness ==
    /\ pc = "filtered"
    /\ kwargs.while_offline = "False"
    /\ \E k \in 1..Len(filtered_songs) :
        LET t == TrackOf(filtered_songs[k])
        IN /\ Len(t.listens) = 2
           /\ t.listens[1].ts = kwargs.after
           /\ t.listens[2].offline = "True"
           /\ filtered_songs[k].time_played = <<t.listens[1].time_played>>

\* the listens that reach line 119: they pass the duration, timestamp,
\* reason, shuffle, offline and private checks (a reason check passes only
\* when its list is empty)
ReachesSkipCheck(listen) ==
    /\ listen.time_played >= kwargs.ms_played
    /\ DtLe(kwargs.after, listen.ts)
    /\ DtLe(listen.ts, kwargs.before)
    /\ kwargs.start_reasons = <<>>
    /\ kwargs.end_reasons = <<>>
    /\ kwargs.on_shuffle # "None" => listen.shuffle = kwargs.on_shuffle
    /\ kwargs.while_offline # "None" => listen.offline = kwargs.while_offline
    /\ kwargs.while_private # "None" => listen.incognito = kwargs.while_private

SkipsOf(songs) == [k \in 1..Len(songs) |-> songs[k].skips]

\* C10: the skip counter of a FilteredTrack is the number of the Track's
\* listens with a true skip flag among those that reached the skip-flag
\* check; the counters are the same for every value of the skipped option;
\* with skipped = True the counter equals the kept play count.
C10_SkipsCountReachedListens ==
    pc = "filtered" =>
        /\ \A k \in 1..Len(filtered_songs) :
            LET t == TrackOf(filtered_songs[k])
            IN filtered_songs[k].skips =
                 Cardinality({j \in SkipFlagged(t) : ReachesSkipCheck(t.listens[j])})
        /\ \A v \in PyBool \ {kwargs.skipped} :
            LET r == FilterSongs(all_songs, [kwargs EXCEPT !.skipped = v])
            IN ~r.raised /\ SkipsOf(r.songs) = SkipsOf(filtered_songs)
        /\ kwargs.skipped = "True" =>
            \A k \in 1..Len(filtered_songs) :
                filtered_songs[k].skips = Len(filtered_songs[k].time_played)

\* with skipped = False a skip counter exceeds the kept play count, while a
\* skipped listen of the same Track, too short, is not counted
C10_Witness ==
    /\ pc = "filtered"
    /\ kwargs.skipped = "False"
    /\ kwargs.ms_played = MIN_LISTEN_TIME
    /\ \E k \in 1..Len(filtered_songs) :
        /\ filtered_songs[k].skips > Len(filtered_songs[k].time_played)
        /\ filtered_songs[k].skips < Cardinality(SkipFlagged(TrackOf(filtered_songs[k])))

\* C3 as stated: the skip counter of a FilteredTrack is the number of all the
\* Track's listens whose skip flag is true, whatever the other checks decide.
C3_SkipsCountEverySkippedListen ==
    pc = "filtered" =>
        \A k \in 1..Len(filtered_songs) :
            filtered_songs[k].skips = Cardinality(SkipFlagged(TrackOf(filtered_songs[k])))

\* a listen fails a check that precedes the skip tally
FailsEarlierCheck(listen) ==
    \/ listen.time_played < kwargs.ms_played
    \/ DtLt(listen.ts, kwargs.after)
    \/ DtLt(kwargs.before, listen.ts)
    \/ kwargs.on_shuffle \in {"True", "False"} /\ listen.shuffle # kwargs.on_shuffle
    \/ kwargs.while_offline \in {"True", "False"} /\ listen.offline # kwargs.while_offline
    \/ kwargs.while_private \in {"True", "False"} /\ listen.incognito # kwargs.while_private

\* C3 as amended: the skip counter of a FilteredTrack is the number of the
\* Track's listens whose skip flag is true, less those of them that fail the
\* minimum-duration, before/after, shuffle, offline or private check; a
\* skipped listen that passes these is tallied whether or not the skipped
\* option then keeps it.
C3_SkipsCountSkippedListensPassingEarlierChecks ==
    pc = "filtered" =>
        \A k \in 1..Len(filtered_songs) :
            LET t == TrackOf(filtered_songs[k])
            IN filtered_songs[k].skips =
                 Cardinality(SkipFlagged(t))
                 - Cardinality({j \in SkipFlagged(t) : FailsEarlierCheck(t.listens[j])})

\* a Track with two skipped listens, one too short and so not tallied, the
\* other tallied though the skipped option drops it
C3_Witness ==
    /\ pc = "filtered"
    /\ kwargs.ms_played = MIN_LISTEN_TIME
    /\ kwargs.skipped = "False"
    /\ \E k \in 1..Len(filtered_songs) :
        LET t == TrackOf(filtered_songs[k])
        IN /\ Cardinality(SkipFlagged(t)) = 2
           /\ \E j \in SkipFlagged(t) : t.listens[j].time_played < kwargs.ms_played
           /\ \E j \in SkipFlagged(t) : t.listens[j].time_played >= kwargs.ms_played
           /\ filtered_songs[k].skips = 1
           /\ filtered_songs[k].time_played = <<>>

\* C2: sort, given a selector that is none of the four metrics, raises an
\* error and returns nothing.
C2_UnknownMetricRaises ==
    (pc \in {"sort_returned_list", "sort_returned_None", "sort_raised"}
        /\ sort_by \notin {"plays", "time", "skips", "skip ratio"})
    => pc = "sort_raised"

\* the metrics, in the words of the claim
Plays(fs) == Len(fs.time_played)

\* metric value of a is at least that of b; skip ratios are compared as
\* fractions, the ratio of a FilteredTrack without plays being -1
MetricGeq(m, a, b) ==
    IF m = "plays" THEN Plays(a) >= Plays(b)
    ELSE IF m = "time" THEN Sum(a.time_played) >= Sum(b.time_played)
    ELSE IF m = "skips" THEN a.skips >= b.skips
    ELSE IF Plays(b) = 0 THEN TRUE
    ELSE IF Plays(a) = 0 THEN FALSE
    ELSE a.skips * Plays(b) >= b.skips * Plays(a)

PlaceIn(seq, x) == CHOOSE k \in 1..Len(seq) : seq[k] = x

\* C8: for each of the four metrics sort returns a permutation of its input
\* in non-increasing order of the metric, FilteredTracks of equal metric
\* keeping their input order; under skip ratio every FilteredTrack without
\* kept plays comes after every FilteredTrack with one.
C8_SortedStableDescending ==
    pc = "sort_returned_list" =>
        /\ sort_by \in {"plays", "time", "skips", "skip ratio"}
        /\ Len(sorted_songs) = Len(filtered_songs)
        /\ Range(sorted_songs) = Range(filtered_songs)
        /\ \A i, j \in 1..Len(sorted_songs) :
            i < j =>
                /\ MetricGeq(sort_by, sorted_songs[i], sorted_songs[j])
                /\ MetricGeq(sort_by, sorted_songs[j], sorted_songs[i]) =>
                     PlaceIn(filtered_songs, sorted_songs[i])
                       < PlaceIn(filtered_songs, sorted_songs[j])
                /\ sort_by = "skip ratio" =>
                     ~(Plays(sorted_songs[i]) = 0 /\ Plays(sorted_songs[j]) > 0)

\* ranking by skip ratio: a FilteredTrack without plays and two skips came
\* first and is put last, behind two played FilteredTracks of equal ratio that
\* keep their order
C8_Witness ==
    /\ pc = "sort_returned_list"
    /\ sort_by = "skip ratio"
    /\ Len(filtered_songs) = 3
    /\ Plays(filtered_songs[1]) = 0
    /\ filtered_songs[1].skips = 2
    /\ Plays(filtered_songs[2]) # Plays(filtered_songs[3])
    /\ Plays(filtered_songs[2]) > 0
    /\ Plays(filtered_songs[3]) > 0
    /\ sorted_songs = <<filtered_songs[2], filtered_songs[3], filtered_songs[1]>>
    /\ MetricGeq(sort_by, filtered_songs[3], filtered_songs[2])
====
